---- MODULE Spec2Model ----
(***************************************************************************)
(* Model of calculate_theoretical_yield (src/code.py).                     *)
(*                                                                         *)
(* One behaviour is one call of the function: the caller fills the         *)
(* dictionary item by item and calls; every loop iteration and every later *)
(* block of the function is a step, up to the return or the exception that *)
(* leaves the function.                                                    *)
(* Python floats are modelled as exact rationals <<n, d>> (d > 0, reduced),*)
(* so rounding, overflow and NaN are outside the model; the two RDKit      *)
(* calls are modelled by their outcome on each identifier.                 *)
(***************************************************************************)
EXTENDS Integers, Sequences, FiniteSets, TLC

VARIABLES reactants, product_smiles, mole_ratio_product,
          pc, i, moles_of_reactants, limiting_reactant_name,
          theoretical_moles_product, resolverCalls, result

vars == <<reactants, product_smiles, mole_ratio_product, pc, i,
          moles_of_reactants, limiting_reactant_name,
          theoretical_moles_product, resolverCalls, result>>

args == <<reactants, product_smiles, mole_ratio_product>>

(* ------------------------------ bounds -------------------------------- *)

\* largest number of entries of the reactants dictionary
MaxReactants == 2

(* --------------------------- exact rationals -------------------------- *)

Abs(n) == IF n < 0 THEN -n ELSE n

RECURSIVE GCD(_, _)
GCD(a, b) == IF b = 0 THEN a ELSE GCD(b, a % b)

\* the rational n/d (d # 0), reduced, with a positive denominator
Rat(n, d) ==
    LET g == GCD(Abs(n), Abs(d))
        s == IF d < 0 THEN -1 ELSE 1
    IN  <<(s * n) \div g, (s * d) \div g>>

RDiv(x, y) == Rat(x[1] * y[2], x[2] * y[1])
RMul(x, y) == Rat(x[1] * y[1], x[2] * y[2])
RLess(x, y) == x[1] * y[2] < y[1] * x[2]
RLeq(x, y) == x[1] * y[2] <= y[1] * x[2]
RZero(x) == x[1] = 0

(* ------------------------- argument values ---------------------------- *)

\* a dictionary field or argument that should hold a number:
\* a number, a missing key / None, or a value that is no number (a str)
Num(n) == [kind |-> "num", v |-> n]
NoNum == [kind |-> "absent", v |-> 0]
BadNum == [kind |-> "nonnum", v |-> 0]

\* a field or argument that should hold a SMILES string:
\* a string, a missing key / None, or a value that is no string
Str(s) == [kind |-> "str", s |-> s]
NoStr == [kind |-> "absent", s |-> ""]
BadStr == [kind |-> "nonstr", s |-> ""]

\* a test `x is None` in place of `not x`
FalsyNoneOnly(x) == x.kind = "absent"

\* `not x` of Python for the values above
Falsy(x) ==
    \/ x.kind = "absent"
    \/ x.kind = "str" /\ x.s = ""
    \/ x.kind = "num" /\ x.v = 0

SmilesValues == {NoStr, Str(""), Str("C"), Str("*"), Str("xyz"), BadStr}
WeightValues == {NoNum, Num(0), Num(1), Num(2), Num(-1), BadNum}
RatioValues == {NoNum, Num(0), Num(1), Num(2), Num(4), BadNum}
ProductSmilesValues == {Str(""), Str("O"), Str("*"), Str("xyz"), BadStr}
ProductRatioValues == {Num(0), Num(1), Num(2), BadNum}

\* The function returns from an item at the first fault it meets, so a field it
\* never examines on that item carries one fixed, valid value:
\*   line 34 short-circuits on a falsy smiles, and returns before mole_ratio is read;
\*   lines 38-43 return or raise before mole_ratio is read (line 44).
\* the reactant identifiers that resolve to a molecule of non-zero weight
ValidSmiles == {Str("C")}

RatioIsRead(d) ==
    /\ ~Falsy(d.smiles) /\ ~Falsy(d.weight_g)
    /\ d.smiles \in ValidSmiles /\ d.weight_g.kind = "num"

WeightIsRead(d) ==
    /\ ~Falsy(d.smiles)
    /\ Falsy(d.weight_g) \/ d.smiles \in ValidSmiles

ReactantData ==
    {d \in [smiles : SmilesValues, weight_g : WeightValues, mole_ratio : RatioValues] :
        /\ WeightIsRead(d) \/ d.weight_g = Num(1)
        /\ RatioIsRead(d) \/ d.mole_ratio = NoNum}

\* the orders in which the keys of the dictionary are inserted, hence iterated
KeyOrders == {<<"A", "B", "C", "D">>, <<"D", "C", "B", "A">>}

(* ---------------------------- the resolver ---------------------------- *)

\* outcome of a resolver call: a molecule with its exact weight, None, or an exception
Mol(w) == [kind |-> "mol", w |-> w]
NoMol == [kind |-> "none", w |-> 0]
Throws == [kind |-> "raise", w |-> 0]

\* Chem.MolFromSmiles followed by CalcExactMolWt: the outcomes on an identifier
\* (weights are rounded stand-ins for the exact masses; "*" is a dummy atom of mass 0;
\*  the empty string is either rejected or read as the empty molecule)
MolFromSmiles(smiles) ==
    IF smiles.kind # "str" THEN {Throws}
    ELSE CASE smiles.s = "C" -> {Mol(16)}
           [] smiles.s = "O" -> {Mol(18)}
           [] smiles.s = "*" -> {Mol(0)}
           [] smiles.s = "" -> {NoMol, Mol(0)}
           [] OTHER -> {NoMol}

(* ----------------------------- results -------------------------------- *)

\* a success record that lacks the limiting reactant
SuccessResultYieldOnly(yield, name) == [theoretical_yield_g |-> yield]

\* the 'error' strings of the function, by kind and the name they interpolate
ErrorResult(kind, name) == [error |-> <<kind, name>>]

\* lines 72-75
SuccessResult(yield, name) == [theoretical_yield_g |-> yield, limiting_reactant |-> name]

NoResult == <<>>

(* ------------------------------ the call ------------------------------ *)

Init ==
    /\ reactants = <<>>
    /\ product_smiles = NoStr
    /\ mole_ratio_product = NoNum
    /\ pc = "input"
    /\ i = 1
    /\ moles_of_reactants = <<>>
    /\ limiting_reactant_name = ""
    /\ theoretical_moles_product = <<0, 1>>
    /\ resolverCalls = <<>>
    /\ result = NoResult

\* the caller adds one item to the dictionary (lines 90-99)
AddReactant ==
    /\ pc = "input" /\ Len(reactants) < MaxReactants
    /\ \E ko \in KeyOrders, data \in ReactantData :
         /\ IF Len(reactants) = 0 THEN TRUE ELSE reactants[1].name = ko[1]
         /\ reactants' = Append(reactants, [name |-> ko[Len(reactants) + 1], data |-> data])
    /\ UNCHANGED <<product_smiles, mole_ratio_product, pc, i, moles_of_reactants,
                   limiting_reactant_name, theoretical_moles_product, resolverCalls, result>>

\* the call calculate_theoretical_yield(reactants, product_smiles, mole_ratio_product)
\* (lines 101-104, line 27)
Call ==
    /\ pc = "input"
    /\ product_smiles' \in ProductSmilesValues
    /\ mole_ratio_product' \in ProductRatioValues
    /\ pc' = "loop"
    /\ UNCHANGED <<reactants, i, moles_of_reactants, limiting_reactant_name,
                   theoretical_moles_product, resolverCalls, result>>

Return(r) ==
    /\ pc' = "returned"
    /\ result' = r

\* lines 42-44 raise: a weight that is no number, a molecular weight of zero,
\* a mole ratio that is no number or is zero
ReactantFaults(data, mol) ==
    \/ data.weight_g.kind # "num"
    \/ mol.w = 0
    \/ data.mole_ratio.kind = "nonnum"
    \/ data.mole_ratio.kind = "num" /\ data.mole_ratio.v = 0

\* the moles stored without the division by the mole ratio
NormalizedMolesNoRatio(data, mol) == RDiv(<<data.weight_g.v, 1>>, <<mol.w, 1>>)

\* lines 42-44: moles / data.get('mole_ratio', 1.0)
NormalizedMoles(data, mol) ==
    LET mol_weight == <<mol.w, 1>>
        moles == RDiv(<<data.weight_g.v, 1>>, mol_weight)
        ratio == IF data.mole_ratio.kind = "absent" THEN <<1, 1>>
                 ELSE <<data.mole_ratio.v, 1>>
    IN  RDiv(moles, ratio)

\* an invalid item skipped (continue) instead of ending the call
ReactantInvalidSkip ==
    /\ pc = "loop" /\ i <= Len(reactants)
    /\ Falsy(reactants[i].data.smiles) \/ Falsy(reactants[i].data.weight_g)
    /\ i' = i + 1
    /\ UNCHANGED <<args, pc, moles_of_reactants, limiting_reactant_name,
                   theoretical_moles_product, resolverCalls, result>>

\* lines 30-35: an item whose smiles or weight_g is falsy
ReactantInvalid ==
    /\ pc = "loop" /\ i <= Len(reactants)
    /\ LET name == reactants[i].name
           data == reactants[i].data
       IN  /\ Falsy(data.smiles) \/ Falsy(data.weight_g)
           /\ Return(ErrorResult("MissingField", name))
    /\ UNCHANGED <<args, i, moles_of_reactants, limiting_reactant_name,
                   theoretical_moles_product, resolverCalls>>

\* the `if not mol` test left out: CalcExactMolWt(None) raises inside the try block
ReactantErrorNoCheck(data, mol) ==
    IF mol.kind = "mol" /\ ~ReactantFaults(data, mol) THEN "" ELSE "UnexpectedFailure"

\* lines 38-47: the failure an item ends in once the resolver has answered,
\* "" when there is none
ReactantError(data, mol) ==
    CASE mol.kind = "raise" -> "UnexpectedFailure"
      [] mol.kind = "none" -> "ParseFailure"
      [] mol.kind = "mol" /\ ReactantFaults(data, mol) -> "UnexpectedFailure"
      [] OTHER -> ""

\* lines 37-47: the resolver is called on the item's smiles
ReactantResolve ==
    /\ pc = "loop" /\ i <= Len(reactants)
    /\ LET name == reactants[i].name
           data == reactants[i].data
       IN  /\ ~(Falsy(data.smiles) \/ Falsy(data.weight_g))
           /\ resolverCalls' = Append(resolverCalls, name)
           /\ \E mol \in MolFromSmiles(data.smiles) :
                IF ReactantError(data, mol) # ""
                THEN /\ Return(ErrorResult(ReactantError(data, mol), name))
                     /\ UNCHANGED <<i, moles_of_reactants>>
                ELSE /\ moles_of_reactants' =
                           Append(moles_of_reactants,
                                  [name |-> name, moles |-> NormalizedMoles(data, mol)])
                     /\ i' = i + 1
                     /\ UNCHANGED <<pc, result>>
    /\ UNCHANGED <<args, limiting_reactant_name, theoretical_moles_product>>

\* the emptiness test left out: min() of an empty dictionary raises ValueError
NoReactantsRaises ==
    /\ pc = "loop" /\ i > Len(reactants)
    /\ Len(moles_of_reactants) = 0
    /\ pc' = "raised"
    /\ UNCHANGED <<args, i, moles_of_reactants, limiting_reactant_name,
                   theoretical_moles_product, resolverCalls, result>>

\* lines 50-51
NoReactants ==
    /\ pc = "loop" /\ i > Len(reactants)
    /\ Len(moles_of_reactants) = 0
    /\ Return(ErrorResult("NoReactants", ""))
    /\ UNCHANGED <<args, i, moles_of_reactants, limiting_reactant_name,
                   theoretical_moles_product, resolverCalls>>

\* a minimum that keeps the last of the least values
RECURSIVE MinFromLast(_, _, _)
MinFromLast(d, k, best) ==
    IF k > Len(d) THEN best
    ELSE MinFromLast(d, k + 1, IF RLeq(d[k].moles, d[best].moles) THEN k ELSE best)

\* min(d, key=d.get): the first key, in iteration order, of the least value
RECURSIVE MinFrom(_, _, _)
MinFrom(d, k, best) ==
    IF k > Len(d) THEN best
    ELSE MinFrom(d, k + 1, IF RLess(d[k].moles, d[best].moles) THEN k ELSE best)

MinKey(d) == MinFrom(d, 2, 1)

\* the limiting moles taken as the product moles, the product mole ratio dropped
TheoreticalMolesProductNoRatio(moles_limiting, ratio) == moles_limiting

\* line 57
TheoreticalMolesProduct(moles_limiting, ratio) == RMul(moles_limiting, <<ratio, 1>>)

\* lines 53-57; the product at line 57 is outside every try block
FindLimiting ==
    /\ pc = "loop" /\ i > Len(reactants)
    /\ Len(moles_of_reactants) > 0
    /\ LET entry == moles_of_reactants[MinKey(moles_of_reactants)]
       IN  /\ limiting_reactant_name' = entry.name
           /\ IF mole_ratio_product.kind = "num"
              THEN /\ theoretical_moles_product' =
                         TheoreticalMolesProduct(entry.moles, mole_ratio_product.v)
                   /\ pc' = "product"
              ELSE /\ pc' = "raised"
                   /\ UNCHANGED theoretical_moles_product
    /\ UNCHANGED <<args, i, moles_of_reactants, resolverCalls, result>>

\* lines 61-67: the failure the product ends in, "" when there is none
ProductError(mol) ==
    CASE mol.kind = "raise" -> "UnexpectedFailure"
      [] mol.kind = "none" -> "ParseFailure"
      [] OTHER -> ""

\* line 70
TheoreticalYield(moles_product, product_mol_weight) ==
    RMul(moles_product, <<product_mol_weight, 1>>)

\* lines 60-75
ResolveProduct ==
    /\ pc = "product"
    /\ resolverCalls' = Append(resolverCalls, "<product>")
    /\ \E mol \in MolFromSmiles(product_smiles) :
         IF ProductError(mol) # ""
         THEN Return(ErrorResult(ProductError(mol), "<product>"))
         ELSE Return(SuccessResult(TheoreticalYield(theoretical_moles_product, mol.w),
                                   limiting_reactant_name))
    /\ UNCHANGED <<args, i, moles_of_reactants, limiting_reactant_name,
                   theoretical_moles_product>>

Next ==
    \/ AddReactant
    \/ Call
    \/ ReactantInvalid
    \/ ReactantResolve
    \/ NoReactants
    \/ FindLimiting
    \/ ResolveProduct

Spec == Init /\ [][Next]_vars

(* ------------------------- vocabulary of the claims ------------------- *)

Returned == pc = "returned"

IsFailure == Returned /\ "error" \in DOMAIN result

IsSuccess == Returned /\ "theoretical_yield_g" \in DOMAIN result

FailureOf(kind, name) == Returned /\ result = [error |-> <<kind, name>>]

Called == pc # "input"

\* the resolver returns no structure for the identifier
Rejected(smiles) == MolFromSmiles(smiles) = {NoMol}

\* mass / molecular weight / mole ratio of an item, an absent ratio counting as 1
Normalized(data) ==
    LET w == (CHOOSE m \in MolFromSmiles(data.smiles) : TRUE).w
        r == IF data.mole_ratio.kind = "absent" THEN 1 ELSE data.mole_ratio.v
    IN  Rat(data.weight_g.v, w * r)

\* an item the loop passes: identifier resolved, mass and ratio usable
ValidReactant(data) ==
    /\ data.smiles \in ValidSmiles
    /\ data.weight_g.kind = "num" /\ data.weight_g.v # 0
    /\ data.mole_ratio.kind # "nonnum"
    /\ data.mole_ratio.kind = "num" => data.mole_ratio.v # 0

\* position in the dictionary of the returned limiting reactant
LimitingIndex == CHOOSE k \in 1..Len(reactants) : reactants[k].name = result.limiting_reactant

(* -------------------------------- claims ------------------------------ *)

\* C1: a call that returns, returns either a record of exactly 'theoretical_yield_g'
\* and 'limiting_reactant', or a record of exactly 'error'; nothing is returned before
C1_TaggedOutcome ==
    /\ Returned =>
          \/ DOMAIN result = {"error"}
          \/ DOMAIN result = {"theoretical_yield_g", "limiting_reactant"}
    /\ ~Returned => result = NoResult

C1_Witness == IsSuccess /\ Len(reactants) = 2

\* C2: once the minimum is taken, the normalized moles (mass / weight / ratio) of every
\* item of the dictionary have been stored; on success the limiting reactant is an item
\* of the dictionary whose normalized moles are at most those of every item
C2_LimitingIsMinimum ==
    /\ limiting_reactant_name # "" =>
          /\ Len(moles_of_reactants) = Len(reactants)
          /\ \A k \in 1..Len(reactants) :
                /\ moles_of_reactants[k].name = reactants[k].name
                /\ moles_of_reactants[k].moles = Normalized(reactants[k].data)
    /\ IsSuccess =>
          \E k \in 1..Len(reactants) :
             /\ reactants[k].name = result.limiting_reactant
             /\ \A j \in 1..Len(reactants) :
                   RLeq(Normalized(reactants[k].data), Normalized(reactants[j].data))

\* the limiting reactant has the larger mass of two and strictly fewer normalized moles
C2_Witness ==
    /\ IsSuccess /\ Len(reactants) = 2
    /\ \E k, j \in 1..2 :
          /\ reactants[k].name = result.limiting_reactant
          /\ reactants[k].data.weight_g.v > reactants[j].data.weight_g.v
          /\ RLess(Normalized(reactants[k].data), Normalized(reactants[j].data))

\* C3: on success the yield is normalized moles of the limiting reactant x product mole
\* ratio x product weight; for one reactant of ratio 1 and a product ratio of 1 it is
\* (mass / reactant weight) x product weight and that reactant is the limiting one
C3_YieldFormula ==
    IsSuccess =>
       /\ \E m \in MolFromSmiles(product_smiles) :
             /\ m.kind = "mol"
             /\ result.theoretical_yield_g =
                   RMul(RMul(Normalized(reactants[LimitingIndex].data),
                             <<mole_ratio_product.v, 1>>), <<m.w, 1>>)
       /\ (/\ Len(reactants) = 1
           /\ reactants[1].data.mole_ratio = Num(1)
           /\ mole_ratio_product = Num(1))
          => /\ result.limiting_reactant = reactants[1].name
             /\ \E m \in MolFromSmiles(product_smiles) :
                   /\ m.kind = "mol"
                   /\ result.theoretical_yield_g =
                         Rat(reactants[1].data.weight_g.v * m.w,
                             (CHOOSE r \in MolFromSmiles(reactants[1].data.smiles) : TRUE).w)

C3_Witness ==
    /\ IsSuccess /\ Len(reactants) = 1
    /\ reactants[1].data.mole_ratio = Num(1) /\ mole_ratio_product = Num(1)
    /\ reactants[1].data.weight_g = Num(2)
    /\ result.theoretical_yield_g = <<9, 4>>

\* some reactant's or the product's identifier is empty or rejected by the resolver
AnyUnparseable ==
    \/ \E k \in 1..Len(reactants) :
          reactants[k].data.smiles = Str("") \/ Rejected(reactants[k].data.smiles)
    \/ product_smiles = Str("") \/ Rejected(product_smiles)

\* C4 as stated: every call on an input with an unparseable identifier returns the
\* ParseFailure-kind failure
C4_AlwaysParseFailure ==
    (Returned /\ AnyUnparseable) =>
       \E n \in {"A", "B", "C", "D", "<product>"} : FailureOf("ParseFailure", n)

\* C4 as amended: when the resolver is called on an identifier and rejects it, the call
\* returns the ParseFailure-kind failure of that item; and no input with a reactant
\* identifier that is empty or rejected, or a rejected product identifier, succeeds
C4_ParseFailureWhenResolved ==
    /\ \A c \in 1..Len(resolverCalls) :
          LET who == resolverCalls[c]
              smiles == IF who = "<product>" THEN product_smiles
                        ELSE reactants[c].data.smiles
          IN  /\ who # "<product>" => reactants[c].name = who
              /\ Rejected(smiles) => FailureOf("ParseFailure", who)
    /\ IsSuccess =>
          /\ \A k \in 1..Len(reactants) :
                /\ reactants[k].data.smiles # Str("")
                /\ ~Rejected(reactants[k].data.smiles)
          /\ ~Rejected(product_smiles)

\* the second reactant's identifier is rejected after the first one passed
C4_Witness ==
    /\ Len(reactants) = 2 /\ Rejected(reactants[2].data.smiles)
    /\ resolverCalls = <<reactants[1].name, reactants[2].name>>
    /\ FailureOf("ParseFailure", reactants[2].name)

\* C5: a call with an empty dictionary returns the NoReactants failure whatever the
\* product arguments are; it neither raises nor reaches the product
C5_EmptyMapping ==
    (Called /\ Len(reactants) = 0) =>
       /\ pc \in {"loop", "returned"}
       /\ Returned => FailureOf("NoReactants", "")
       /\ resolverCalls = <<>>

C5_Witness ==
    /\ Len(reactants) = 0 /\ FailureOf("NoReactants", "")
    /\ mole_ratio_product = BadNum /\ product_smiles = Str("xyz")

\* exactly one item has no mass field and every other item is valid
OneMissingMass(k) ==
    /\ reactants[k].data.weight_g = NoNum
    /\ \A j \in 1..Len(reactants) : j # k => ValidReactant(reactants[j].data)

\* C6: when one reactant has no mass field and all others are valid, the call returns
\* the MissingField failure naming that reactant and never resolves the product
C6_MissingMassStopsBeforeProduct ==
    \A k \in 1..Len(reactants) :
       (Called /\ OneMissingMass(k)) =>
          /\ pc \in {"loop", "returned"}
          /\ Returned => FailureOf("MissingField", reactants[k].name)
          /\ \A c \in 1..Len(resolverCalls) : resolverCalls[c] # "<product>"

C6_Witness ==
    /\ Len(reactants) = 2 /\ OneMissingMass(2)
    /\ FailureOf("MissingField", reactants[2].name)
    /\ resolverCalls = <<reactants[1].name>>

\* C7 as stated: no exception escapes the function
C7_NoExceptionEscapes == pc # "raised"

\* C8 as stated: a returned yield is never negative
C8_YieldNonNegative == IsSuccess => result.theoretical_yield_g[1] >= 0

\* C9: among the reactants that share the least normalized moles, the one returned is
\* the first in the dictionary's iteration order
C9_FirstOfTied ==
    IsSuccess =>
       \A k \in 1..Len(reactants) :
          Normalized(reactants[k].data) = Normalized(reactants[LimitingIndex].data)
             => LimitingIndex <= k

\* two different items tie, inserted under keys in descending order
C9_Witness ==
    /\ IsSuccess /\ Len(reactants) = 2
    /\ reactants[1].name = "D"
    /\ reactants[1].data # reactants[2].data
    /\ Normalized(reactants[1].data) = Normalized(reactants[2].data)
    /\ result.limiting_reactant = "D"

\* C10: a mass of 0 ends the call as an absent mass does, in the MissingField failure
\* naming the item the loop stopped at; so on success every mass is a non-zero number,
\* and a yield of zero comes with a product mole ratio of zero or a product weight of zero
C10_ZeroMassIsMissing ==
    /\ (Returned /\ i <= Len(reactants) /\ reactants[i].data.weight_g \in {Num(0), NoNum})
          => FailureOf("MissingField", reactants[i].name)
    /\ (pc \in {"loop", "product", "raised"} /\ i <= Len(reactants))
          => \A k \in 1..(i - 1) : reactants[k].data.weight_g \notin {Num(0), NoNum}
    /\ IsSuccess =>
          /\ \A k \in 1..Len(reactants) :
                reactants[k].data.weight_g.kind = "num" /\ reactants[k].data.weight_g.v # 0
          /\ RZero(result.theoretical_yield_g) =>
                \/ mole_ratio_product = Num(0)
                \/ Mol(0) \in MolFromSmiles(product_smiles)

\* the loop stops at a second item of mass 0 whose identifier is valid
C10_Witness ==
    /\ Len(reactants) = 2 /\ i = 2
    /\ reactants[2].data.weight_g = Num(0)
    /\ reactants[2].data.smiles \in ValidSmiles
    /\ FailureOf("MissingField", reactants[2].name)

====
